---- MODULE Spec2Model ----
(***************************************************************************)
(* Interval scheduling routines of basic-datastructure/interval_scheduling *)
(* (meeting_rooms2.py, meeting_rooms_252.py).  A caller owns one list of   *)
(* [start, end] pairs and calls the five functions on it; each call is one *)
(* action that records the value returned (or the exception raised) and    *)
(* leaves the list as the function leaves it.                              *)
(***************************************************************************)
EXTENDS Integers, Sequences, FiniteSets, TLC

\* ---- bounds ----
MaxTime == 3          \* start and end values range over 0..MaxTime
MaxLen == 3           \* the caller's list has at most MaxLen intervals
MaxNums == 4          \* maximum_subarray: nums has at most MaxNums elements
MaxAbs == 2           \* ... each in -MaxAbs..MaxAbs
MaxK == 3             \* ... and k is in -MaxK..MaxK

VARIABLES intervals,  \* the caller's list object
          lastOp,     \* name of the function called last ("none" at first)
          lastArg,    \* content of the list when that call began
          lastRet,    \* what that call returned or raised
          prevOp,     \* the call before it, likewise
          prevArg,
          prevRet,
          frame       \* local variables of a function that is run step by step

vars == <<intervals, lastOp, lastArg, lastRet, prevOp, prevArg, prevRet, frame>>

\* ---- Python values ----
PyInt(n) == <<"int", n>>
PyBool(b) == <<"bool", b>>
IndexError == <<"IndexError", 0>>
None == <<"None", 0>>

Max(a, b) == IF a >= b THEN a ELSE b

\* no function is being run step by step
Idle == [pc |-> "idle"]

Times == 0..MaxTime
\* intervals with start <= end, as pairs <<start, end>>
Interval == {p \in Times \X Times : p[1] <= p[2]}

RECURSIVE SeqsUpTo(_)
SeqsUpTo(n) ==
  IF n = 0 THEN {<<>>}
  ELSE LET R == SeqsUpTo(n - 1)
       IN R \cup {Append(s, x) : s \in {r \in R : Len(r) = n - 1}, x \in Interval}

IntervalLists == SeqsUpTo(MaxLen)

\* ---- list.sort(key=lambda x: x[0]): stable, ascending by start ----
RECURSIVE InsertByStartTiesFirst(_, _)
InsertByStartTiesFirst(x, S) ==
  IF S = <<>> THEN <<x>>
  ELSE IF x[1] <= Head(S)[1] THEN <<x>> \o S
  ELSE <<Head(S)>> \o InsertByStartTiesFirst(x, Tail(S))

RECURSIVE InsertByStart(_, _)
InsertByStart(x, S) ==
  IF S = <<>> THEN <<x>>
  ELSE IF x[1] < Head(S)[1] THEN <<x>> \o S
  ELSE <<Head(S)>> \o InsertByStart(x, Tail(S))

RECURSIVE SortByStart(_)
SortByStart(I) ==
  IF I = <<>> THEN <<>>
  ELSE InsertByStart(I[Len(I)], SortByStart(SubSeq(I, 1, Len(I) - 1)))

\* ---- sorted(list of numbers) ----
RECURSIVE InsertNum(_, _)
InsertNum(x, S) ==
  IF S = <<>> THEN <<x>>
  ELSE IF x < Head(S) THEN <<x>> \o S
  ELSE <<Head(S)>> \o InsertNum(x, Tail(S))

RECURSIVE sorted(_)
sorted(L) ==
  IF L = <<>> THEN <<>>
  ELSE InsertNum(L[Len(L)], sorted(SubSeq(L, 1, Len(L) - 1)))

\* ---- heapq: the heap is kept as an ascending sequence, heap[0] = Head ----
heappush(heap, x) == InsertNum(x, heap)
heappop(heap) == Tail(heap)

\* ---- minMeetingRoomsBruteForce ----
\* inner for loop: lowest index i with rooms[i] <= start, 0 when none
FirstFit(rooms, start) ==
  IF \E i \in DOMAIN rooms : rooms[i] <= start
  THEN CHOOSE i \in DOMAIN rooms :
         /\ rooms[i] <= start
         /\ \A k \in DOMAIN rooms : rooms[k] <= start => i <= k
  ELSE 0

\* the inner loop without its break: every room that fits takes the interval
PlaceInRoomNoBreak(rooms, start, end) ==
  IF FirstFit(rooms, start) # 0
  THEN [i \in DOMAIN rooms |-> IF rooms[i] <= start THEN end ELSE rooms[i]]
  ELSE Append(rooms, end)

PlaceInRoom(rooms, start, end) ==
  LET i == FirstFit(rooms, start)
  IN IF i # 0 THEN [rooms EXCEPT ![i] = end] ELSE Append(rooms, end)

RECURSIVE BruteForceLoop(_, _, _)
BruteForceLoop(S, k, rooms) ==
  IF k > Len(S) THEN rooms
  ELSE BruteForceLoop(S, k + 1, PlaceInRoom(rooms, S[k][1], S[k][2]))

minMeetingRoomsBruteForce(I) ==
  IF I = <<>> THEN [ret |-> PyInt(0), intervals |-> I]
  ELSE LET S == SortByStart(I)
       IN [ret |-> PyInt(Len(BruteForceLoop(S, 1, <<>>))), intervals |-> S]

\* ---- minMeetingRoomHeap ----
HeapStepNoReuseOnTouch(heap, start, end) ==
  IF heap # <<>> /\ Head(heap) < start
  THEN heappush(heappop(heap), end)
  ELSE heappush(heap, end)

\* "while" for "if": every room that has ended is popped
HeapStepPopAll(heap, start, end) ==
  heappush(SelectSeq(heap, LAMBDA v : v > start), end)

HeapStep(heap, start, end) ==
  IF heap # <<>> /\ Head(heap) <= start
  THEN heappush(heappop(heap), end)
  ELSE heappush(heap, end)

RECURSIVE HeapLoop(_, _, _)
HeapLoop(S, k, heap) ==
  IF k > Len(S) THEN heap
  ELSE HeapLoop(S, k + 1, HeapStep(heap, S[k][1], S[k][2]))

minMeetingRoomHeap(I) ==
  IF I = <<>> THEN [ret |-> PyInt(0), intervals |-> I]
  ELSE LET S == SortByStart(I)
       IN [ret |-> PyInt(Len(HeapLoop(S, 1, <<>>))), intervals |-> S]

\* ---- minMeetingRooms (two-pointer sweep); i, j are the 0-based indices ----
RECURSIVE SweepLoop(_, _, _, _, _, _)
SweepLoop(start, end, i, j, count, res) ==
  IF ~(i < Len(start)) THEN PyInt(res)
  ELSE IF j >= Len(end) THEN IndexError
  ELSE IF start[i + 1] < end[j + 1]
       THEN SweepLoop(start, end, i + 1, j, count + 1, Max(res, count + 1))
       ELSE SweepLoop(start, end, i, j + 1, count - 1, Max(res, count - 1))

SweepInitOne(start, end) == SweepLoop(start, end, 0, 0, 0, 1)

SweepInit(start, end) == SweepLoop(start, end, 0, 0, 0, 0)

minMeetingRooms(I) ==
  LET start == sorted([k \in DOMAIN I |-> I[k][1]])
      end == sorted([k \in DOMAIN I |-> I[k][2]])
  IN [ret |-> SweepInit(start, end), intervals |-> I]

\* ---- canAttendMeetingsBruteForce ----
Overlap(a, b) == ~(a[2] <= b[1] \/ b[2] <= a[1])

canAttendMeetingsBruteForce(I) ==
  [ret |-> PyBool(~\E i \in DOMAIN I : \E j \in (i + 1)..Len(I) : Overlap(I[i], I[j])),
   intervals |-> I]

\* ---- canAttendMeetings ----
RECURSIVE AttendLoopTouchOverlaps(_, _)
AttendLoopTouchOverlaps(S, i) ==
  IF i > Len(S) THEN TRUE
  ELSE IF S[i][1] <= S[i - 1][2] THEN FALSE
  ELSE AttendLoopTouchOverlaps(S, i + 1)

RECURSIVE AttendLoop(_, _)
AttendLoop(S, i) ==
  IF i > Len(S) THEN TRUE
  ELSE IF S[i][1] < S[i - 1][2] THEN FALSE
  ELSE AttendLoop(S, i + 1)

canAttendMeetings(I) ==
  LET S == SortByStart(I)
  IN [ret |-> PyBool(AttendLoop(S, 2)), intervals |-> S]

\* ---- the caller ----
Init ==
  /\ intervals \in IntervalLists
  /\ lastOp = "none"
  /\ lastArg = <<>>
  /\ lastRet = None
  /\ prevOp = "none"
  /\ prevArg = <<>>
  /\ prevRet = None
  /\ frame = Idle

Call(name, r) ==
  /\ intervals' = r.intervals
  /\ lastOp' = name
  /\ lastArg' = intervals
  /\ lastRet' = r.ret
  /\ prevOp' = lastOp
  /\ prevArg' = lastArg
  /\ prevRet' = lastRet

CallBruteForce ==
  /\ Call("minMeetingRoomsBruteForce", minMeetingRoomsBruteForce(intervals))
  /\ UNCHANGED frame
CallHeap ==
  /\ Call("minMeetingRoomHeap", minMeetingRoomHeap(intervals))
  /\ UNCHANGED frame
CallSweep ==
  /\ Call("minMeetingRooms", minMeetingRooms(intervals))
  /\ UNCHANGED frame
CallAttend ==
  /\ Call("canAttendMeetings", canAttendMeetings(intervals))
  /\ UNCHANGED frame
CallAttendBruteForce ==
  /\ Call("canAttendMeetingsBruteForce", canAttendMeetingsBruteForce(intervals))
  /\ UNCHANGED frame

Next ==
  \/ CallBruteForce
  \/ CallHeap
  \/ CallSweep
  \/ CallAttend
  \/ CallAttendBruteForce

Spec == Init /\ [][Next]_vars

caller == <<intervals, lastOp, lastArg, lastRet, prevOp, prevArg, prevRet>>
NotRunning == frame.pc # "loop"

\* ---- minMeetingRooms, one action per iteration of the while loop ----
\* i, j are the 0-based indices of the code; iters counts the iterations made
\* and peak is the largest value count has had (both for the properties only)
SweepFrame(I) ==
  [pc |-> "loop",
   start |-> sorted([k \in DOMAIN I |-> I[k][1]]),
   end |-> sorted([k \in DOMAIN I |-> I[k][2]]),
   res |-> 0, count |-> 0, i |-> 0, j |-> 0,
   iters |-> 0, peak |-> 0]

\* the if/else of the loop body, without the res = max(res, count) after it
SweepBranchKeepCount(f) ==
  IF f.start[f.i + 1] < f.end[f.j + 1]
  THEN [f EXCEPT !.i = f.i + 1, !.count = f.count + 1]
  ELSE [f EXCEPT !.j = f.j + 1]

SweepBranch(f) ==
  IF f.start[f.i + 1] < f.end[f.j + 1]
  THEN [f EXCEPT !.i = f.i + 1, !.count = f.count + 1]
  ELSE [f EXCEPT !.j = f.j + 1, !.count = f.count - 1]

SweepUpdateResLast(res, count) == count

SweepUpdateRes(res, count) == Max(res, count)

SweepBody(f) ==
  LET g == SweepBranch(f)
  IN [g EXCEPT !.res = SweepUpdateRes(g.res, g.count),
               !.iters = f.iters + 1,
               !.peak = Max(f.peak, g.count)]

SweepEnter ==
  /\ NotRunning
  /\ frame' = SweepFrame(intervals)
  /\ UNCHANGED caller

SweepStep ==
  /\ frame.pc = "loop"
  /\ frame.i < Len(frame.start)
  /\ frame.j < Len(frame.end)
  /\ frame' = SweepBody(frame)
  /\ UNCHANGED caller

\* end[j] is read with j == len(end)
SweepRaise ==
  /\ frame.pc = "loop"
  /\ frame.i < Len(frame.start)
  /\ ~(frame.j < Len(frame.end))
  /\ Call("minMeetingRooms", [ret |-> IndexError, intervals |-> intervals])
  /\ frame' = [frame EXCEPT !.pc = "raised"]

SweepReturn ==
  /\ frame.pc = "loop"
  /\ ~(frame.i < Len(frame.start))
  /\ Call("minMeetingRooms", [ret |-> PyInt(frame.res), intervals |-> intervals])
  /\ frame' = [frame EXCEPT !.pc = "done"]

NextSweep ==
  \/ SweepEnter
  \/ SweepStep
  \/ SweepRaise
  \/ SweepReturn

SpecSweep == Init /\ [][NextSweep]_vars

\* the loop run step by step ends as the function minMeetingRooms does
SweepAgrees ==
  frame.pc \in {"done", "raised"} => lastRet = minMeetingRooms(lastArg).ret

\* a step-by-step call returns: as Call, for a list already sorted on entry
Finish(name, arg, ret) ==
  /\ lastOp' = name
  /\ lastArg' = arg
  /\ lastRet' = ret
  /\ prevOp' = lastOp
  /\ prevArg' = lastArg
  /\ prevRet' = lastRet
  /\ UNCHANGED intervals

\* ---- minMeetingRoomsBruteForce, one action per interval ----
\* arg is the list as passed, k the 1-based position of the next interval in
\* the sorted list; added counts the rooms appended (for the properties only)
BruteForceFrame(I) == [pc |-> "loop", arg |-> I, k |-> 1, rooms |-> <<>>, added |-> 0]

BruteForceReturnEmpty ==
  /\ NotRunning
  /\ intervals = <<>>
  /\ frame' = [BruteForceFrame(intervals) EXCEPT !.pc = "done"]
  /\ Finish("minMeetingRoomsBruteForce", intervals, PyInt(0))

BruteForceEnter ==
  /\ NotRunning
  /\ intervals # <<>>
  /\ intervals' = SortByStart(intervals)
  /\ frame' = BruteForceFrame(intervals)
  /\ UNCHANGED <<lastOp, lastArg, lastRet, prevOp, prevArg, prevRet>>

BruteForceStep ==
  /\ frame.pc = "loop"
  /\ frame.k <= Len(intervals)
  /\ LET start == intervals[frame.k][1]
         end == intervals[frame.k][2]
         placed == FirstFit(frame.rooms, start) # 0
     IN frame' = [frame EXCEPT !.k = frame.k + 1,
                               !.rooms = PlaceInRoom(frame.rooms, start, end),
                               !.added = IF placed THEN frame.added ELSE frame.added + 1]
  /\ UNCHANGED caller

BruteForceReturn ==
  /\ frame.pc = "loop"
  /\ frame.k > Len(intervals)
  /\ frame' = [frame EXCEPT !.pc = "done"]
  /\ Finish("minMeetingRoomsBruteForce", frame.arg, PyInt(Len(frame.rooms)))

NextBruteForce ==
  \/ BruteForceReturnEmpty
  \/ BruteForceEnter
  \/ BruteForceStep
  \/ BruteForceReturn

SpecBruteForce == Init /\ [][NextBruteForce]_vars

\* the loop run step by step ends as the function minMeetingRoomsBruteForce does
BruteForceAgrees ==
  frame.pc = "done" =>
    /\ lastRet = minMeetingRoomsBruteForce(lastArg).ret
    /\ intervals = minMeetingRoomsBruteForce(lastArg).intervals

\* ---- minMeetingRoomHeap, one action per interval ----
HeapFrame(I) == [pc |-> "loop", arg |-> I, k |-> 1, heap |-> <<>>]

HeapReturnEmpty ==
  /\ NotRunning
  /\ intervals = <<>>
  /\ frame' = [HeapFrame(intervals) EXCEPT !.pc = "done"]
  /\ Finish("minMeetingRoomHeap", intervals, PyInt(0))

HeapEnter ==
  /\ NotRunning
  /\ intervals # <<>>
  /\ intervals' = SortByStart(intervals)
  /\ frame' = HeapFrame(intervals)
  /\ UNCHANGED <<lastOp, lastArg, lastRet, prevOp, prevArg, prevRet>>

HeapIterate ==
  /\ frame.pc = "loop"
  /\ frame.k <= Len(intervals)
  /\ frame' = [frame EXCEPT
                 !.k = frame.k + 1,
                 !.heap = HeapStep(frame.heap, intervals[frame.k][1], intervals[frame.k][2])]
  /\ UNCHANGED caller

HeapReturn ==
  /\ frame.pc = "loop"
  /\ frame.k > Len(intervals)
  /\ frame' = [frame EXCEPT !.pc = "done"]
  /\ Finish("minMeetingRoomHeap", frame.arg, PyInt(Len(frame.heap)))

NextHeap ==
  \/ HeapReturnEmpty
  \/ HeapEnter
  \/ HeapIterate
  \/ HeapReturn

SpecHeap == Init /\ [][NextHeap]_vars

\* the loop run step by step ends as the function minMeetingRoomHeap does
HeapAgrees ==
  frame.pc = "done" =>
    /\ lastRet = minMeetingRoomHeap(lastArg).ret
    /\ intervals = minMeetingRoomHeap(lastArg).intervals

\* ---- maximum_subarray (subarray.py), one action per loop iteration ----
RECURSIVE NumsUpTo(_)
NumsUpTo(n) ==
  IF n = 0 THEN {<<>>}
  ELSE LET R == NumsUpTo(n - 1)
       IN R \cup {Append(q, x) : q \in {r \in R : Len(r) = n - 1}, x \in (-MaxAbs)..MaxAbs}

\* i is the 0-based index of the code; prefix_nums is the dict, a function
\* from the sums stored to their indices
SubarrayFrame(nums, k) ==
  [pc |-> "loop", nums |-> nums, k |-> k,
   prefix_nums |-> (0 :> -1), curr_sum |-> 0, max_len |-> 0, i |-> 0]

\* "prefix_nums[curr_sum] = i" without the "not in" test before it
StorePrefixLatest(prefix_nums, curr_sum, i) ==
  [s \in DOMAIN prefix_nums \cup {curr_sum} |->
     IF s = curr_sum THEN i ELSE prefix_nums[s]]

StorePrefix(prefix_nums, curr_sum, i) ==
  IF curr_sum \notin DOMAIN prefix_nums
  THEN prefix_nums @@ (curr_sum :> i)
  ELSE prefix_nums

SubarrayBody(f) ==
  LET curr_sum == f.curr_sum + f.nums[f.i + 1]
      max_len == IF curr_sum - f.k \in DOMAIN f.prefix_nums
                 THEN Max(f.max_len, f.i - f.prefix_nums[curr_sum - f.k])
                 ELSE f.max_len
  IN [f EXCEPT !.curr_sum = curr_sum,
               !.max_len = max_len,
               !.prefix_nums = StorePrefix(f.prefix_nums, curr_sum, f.i),
               !.i = f.i + 1]

InitSubarray ==
  /\ intervals = <<>>
  /\ lastOp = "none"
  /\ lastArg = <<>>
  /\ lastRet = None
  /\ prevOp = "none"
  /\ prevArg = <<>>
  /\ prevRet = None
  /\ \E nums \in NumsUpTo(MaxNums) : \E k \in (-MaxK)..MaxK :
       frame = SubarrayFrame(nums, k)

SubarrayStep ==
  /\ frame.pc = "loop"
  /\ frame.i < Len(frame.nums)
  /\ frame' = SubarrayBody(frame)
  /\ UNCHANGED caller

SubarrayReturn ==
  /\ frame.pc = "loop"
  /\ ~(frame.i < Len(frame.nums))
  /\ frame' = [frame EXCEPT !.pc = "done"]
  /\ Finish("maximum_subarray", <<frame.nums, frame.k>>, PyInt(frame.max_len))

NextSubarray ==
  \/ SubarrayStep
  \/ SubarrayReturn

SpecSubarray == InitSubarray /\ [][NextSubarray]_vars

\* ---- vocabulary of the properties ----
RoomCounters == {"minMeetingRoomsBruteForce", "minMeetingRoomHeap", "minMeetingRooms"}
Called == lastOp # "none"

\* what function op returns (or raises) on the list I
Result(op, I) ==
  CASE op = "minMeetingRoomsBruteForce" -> minMeetingRoomsBruteForce(I).ret
    [] op = "minMeetingRoomHeap" -> minMeetingRoomHeap(I).ret
    [] op = "minMeetingRooms" -> minMeetingRooms(I).ret
    [] op = "canAttendMeetings" -> canAttendMeetings(I).ret
    [] op = "canAttendMeetingsBruteForce" -> canAttendMeetingsBruteForce(I).ret

\* all reorderings of the list I
Reorderings(I) == {[k \in DOMAIN I |-> I[f[k]]] : f \in Permutations(DOMAIN I)}

\* least number of rooms that host all intervals, no room holding two
\* intervals that conflict (neither ends at or before the other starts)
Hosts(I, n) ==
  \E room \in [DOMAIN I -> 1..n] :
    \A i \in DOMAIN I : \A j \in DOMAIN I :
      (i < j /\ room[i] = room[j]) => ~Overlap(I[i], I[j])
MinRoomsNeeded(I) ==
  CHOOSE n \in 1..Len(I) : Hosts(I, n) /\ \A m \in 1..(n - 1) : ~Hosts(I, m)

\* two intervals [a,b], [b,c] with a < b < c, in either order
Touching(I) ==
  /\ Len(I) = 2
  /\ \/ I[1][1] < I[1][2] /\ I[1][2] = I[2][1] /\ I[2][1] < I[2][2]
     \/ I[2][1] < I[2][2] /\ I[2][2] = I[1][1] /\ I[1][1] < I[1][2]

\* C1: on every non-empty list of intervals with start <= end the three room
\* counters return the same integer: whichever of them was called, its result
\* is the result of each of the three on that list.
C1_CountersAgree ==
  (lastOp \in RoomCounters /\ lastArg # <<>>) =>
    \A op \in RoomCounters : Result(op, lastArg) = lastRet

\* C2: on every non-empty list minMeetingRoomHeap returns the minimum number
\* of rooms that host all intervals without conflict (the peak concurrent
\* usage), two intervals being in conflict unless one ends at or before the
\* other starts.
C2_HeapIsMinRooms ==
  (lastOp = "minMeetingRoomHeap" /\ lastArg # <<>>) =>
    lastRet = PyInt(MinRoomsNeeded(lastArg))

\* C3: canAttendMeetings returns on every list, in any order, what the
\* pairwise check canAttendMeetingsBruteForce returns on it.
C3_AttendMatchesBruteForce ==
  (lastOp = "canAttendMeetings") =>
    lastRet = canAttendMeetingsBruteForce(lastArg).ret

\* C4: on every non-empty list canAttendMeetings returns true exactly when
\* minMeetingRoomHeap returns 1, whichever of the two was called.
C4_AttendIffOneRoom ==
  /\ (lastOp = "canAttendMeetings" /\ lastArg # <<>>) =>
       (lastRet = PyBool(TRUE) <=> minMeetingRoomHeap(lastArg).ret = PyInt(1))
  /\ (lastOp = "minMeetingRoomHeap" /\ lastArg # <<>>) =>
       (lastRet = PyInt(1) <=> canAttendMeetings(lastArg).ret = PyBool(TRUE))

\* C4 witness: canAttendMeetings answered true on three intervals, one of
\* them zero-length, given out of start order, where the heap needs one room.
C4_Witness ==
  /\ lastOp = "canAttendMeetings"
  /\ Len(lastArg) = 3
  /\ lastArg # intervals
  /\ \E k \in DOMAIN lastArg : lastArg[k][1] = lastArg[k][2]
  /\ lastRet = PyBool(TRUE)
  /\ minMeetingRoomHeap(lastArg).ret = PyInt(1)

\* C5: every operation is pure: when a call has returned, the caller's list
\* holds the same intervals in the same order as when the call began.
C5_ListUnchanged == Called => intervals = lastArg

\* C6: permutation invariance: the result of a room counter or of
\* canAttendMeetings on a list is its result on every reordering of the list.
C6_PermutationInvariant ==
  (lastOp \in RoomCounters \cup {"canAttendMeetings"}) =>
    \A P \in Reorderings(lastArg) : Result(lastOp, P) = lastRet

\* C7: the room counters and canAttendMeetings are total on intervals with
\* start <= end: a call returns a value and never ends in an IndexError.
C7_NoIndexError ==
  (lastOp \in RoomCounters \cup {"canAttendMeetings"}) => lastRet # IndexError

\* C8: boundary touch is not an overlap: on [a,b],[b,c] with a < b < c, in
\* either order, each room counter returns 1 and canAttendMeetings true.
C8_TouchIsNoOverlap ==
  Touching(lastArg) =>
    /\ lastOp \in RoomCounters => lastRet = PyInt(1)
    /\ lastOp = "canAttendMeetings" => lastRet = PyBool(TRUE)

\* C8 witness: canAttendMeetings returned on [b,c],[a,b], later interval first.
C8_Witness ==
  /\ lastOp = "canAttendMeetings"
  /\ Touching(lastArg)
  /\ lastArg[1][1] = lastArg[2][2]
  /\ lastRet = PyBool(TRUE)

\* C9: on the empty list the three room counters return 0 and the two
\* attendance checks return true, none raising an error.
C9_EmptyList ==
  (Called /\ lastArg = <<>>) =>
    /\ lastOp \in RoomCounters => lastRet = PyInt(0)
    /\ lastOp \in {"canAttendMeetings", "canAttendMeetingsBruteForce"} =>
         lastRet = PyBool(TRUE)

\* C9 witness: the sweep was called on the empty list and returned 0.
C9_Witness ==
  /\ lastOp = "minMeetingRooms"
  /\ lastArg = <<>>
  /\ lastRet = PyInt(0)

\* C10: idempotence: two calls in succession of one operation on the same
\* list object give the same result, also when the first call re-sorted it.
C10_Idempotent ==
  (Called /\ prevOp = lastOp) => lastRet = prevRet

\* C10 witness: minMeetingRoomHeap was called twice, the first call re-sorted
\* a list holding two intervals of equal start, and both calls returned 2.
C10_Witness ==
  /\ prevOp = "minMeetingRoomHeap"
  /\ lastOp = "minMeetingRoomHeap"
  /\ prevArg # lastArg
  /\ \E i \in DOMAIN lastArg : \E j \in DOMAIN lastArg :
       i # j /\ lastArg[i][1] = lastArg[j][1]
  /\ lastRet = PyInt(2)
  /\ prevRet = PyInt(2)

\* every interval of I has start < end
Strict(I) == \A k \in DOMAIN I : I[k][1] < I[k][2]

\* C11: in the sweep on a non-empty list of intervals with start < end, at
\* every iteration count = i - j, 0 <= j <= i <= n, count >= 0, and j < n
\* whenever end[j] is read; no index is out of range and the loop ends after
\* at most 2n - 1 iterations with i = n.
C11_SweepLoopInvariant ==
  (frame.pc # "idle" /\ intervals # <<>> /\ Strict(intervals)) =>
    LET n == Len(intervals)
    IN /\ frame.count = frame.i - frame.j
       /\ 0 <= frame.j /\ frame.j <= frame.i /\ frame.i <= n
       /\ frame.count >= 0
       /\ frame.i < n => frame.j < n
       /\ frame.pc # "raised"
       /\ frame.iters <= 2 * n - 1
       /\ frame.pc = "done" => frame.i = n

\* C11 witness: the sweep returned on three intervals of positive length
\* after exactly 2n - 1 = 5 iterations.
C11_Witness ==
  /\ frame.pc = "done"
  /\ Len(intervals) = 3
  /\ Strict(intervals)
  /\ frame.iters = 5
  /\ frame.i = 3
  /\ frame.j = 2

\* C14: in the sweep a release step (start[i] >= end[j]: j advances, count is
\* decremented) leaves res unchanged, res changes only on a step that
\* increments count, and the value returned is the largest value count has had.
C14_ReleaseKeepsPeak ==
  /\ [][(SweepStep /\ frame'.j = frame.j + 1) =>
          (frame'.count = frame.count - 1 /\ frame'.res = frame.res)]_vars
  /\ [][(SweepStep /\ frame'.res # frame.res) =>
          (frame'.count = frame.count + 1 /\ frame'.i = frame.i + 1)]_vars
  /\ [](frame.pc = "done" => lastRet = PyInt(frame.peak))

\* C14 witness: the sweep returned 2 after at least one release step, the
\* counter being below the peak at the end.
C14_Witness ==
  /\ frame.pc = "done"
  /\ frame.j >= 1
  /\ frame.count < frame.res
  /\ lastRet = PyInt(2)

\* number of occurrences of v in the sequence q
Count(q, v) == Cardinality({i \in DOMAIN q : q[i] = v})

\* C12: in minMeetingRoomsBruteForce, for each interval in start-sorted order:
\* if some room has end <= start, exactly the lowest-index such room gets the
\* interval's end and no room is added; otherwise exactly one room with that
\* end is appended and no room changes.  The count returned is the number of
\* rooms ever added.
C12_FirstFitOrNewRoom ==
  /\ [][BruteForceStep =>
          LET start == intervals[frame.k][1]
              end == intervals[frame.k][2]
              old == frame.rooms
              new == frame'.rooms
              fits == {i \in DOMAIN old : old[i] <= start}
          IN IF fits # {}
             THEN /\ Len(new) = Len(old)
                  /\ \E m \in fits :
                       /\ \A i \in fits : m <= i
                       /\ new[m] = end
                       /\ \A i \in DOMAIN old : i # m => new[i] = old[i]
             ELSE /\ \A i \in DOMAIN old : old[i] > start
                  /\ new = Append(old, end)]_vars
  /\ [](frame.pc = "done" => lastRet = PyInt(frame.added))

\* C12 witness: the third interval went into room 1 although room 2 was free
\* for it as well, and 2 was returned, two rooms having been added.
C12_Witness ==
  /\ frame.pc = "done"
  /\ Len(intervals) = 3
  /\ Len(frame.rooms) = 2
  /\ frame.rooms[1] = intervals[3][2]
  /\ frame.rooms[2] <= intervals[3][1]
  /\ frame.added = 2
  /\ lastRet = PyInt(2)

\* C13: in minMeetingRoomHeap each interval removes at most one element, the
\* minimum, and only when the queue is non-empty and the minimum <= start, and
\* always inserts its own end.  After k intervals the queue size is between 1
\* and k, it never decreases, it grows by one exactly when the queue is empty
\* or its minimum is > start, and every queued value is the end of an
\* interval already processed.
C13_HeapSize ==
  /\ [][HeapIterate =>
          LET start == intervals[frame.k][1]
              end == intervals[frame.k][2]
              old == frame.heap
              new == frame'.heap
              reuse == old # <<>> /\ Head(old) <= start
          IN /\ \A v \in Times :
                  Count(new, v) = Count(old, v)
                                  - (IF reuse /\ v = Head(old) THEN 1 ELSE 0)
                                  + (IF v = end THEN 1 ELSE 0)
             /\ reuse => \A i \in DOMAIN old : Head(old) <= old[i]
             /\ Len(new) >= Len(old)
             /\ Len(new) = Len(old) + 1 <=> (old = <<>> \/ Head(old) > start)]_vars
  /\ [](frame.pc \in {"loop", "done"} =>
          /\ frame.k > 1 => (1 <= Len(frame.heap) /\ Len(frame.heap) <= frame.k - 1)
          /\ \A n \in DOMAIN frame.heap :
               \E m \in 1..(frame.k - 1) : intervals[m][2] = frame.heap[n])

\* C13 witness: three intervals were processed, the second grew the queue and
\* the third took the place of the minimum, leaving two queued ends.
C13_Witness ==
  /\ frame.pc = "loop"
  /\ frame.k = 4
  /\ Len(frame.heap) = 2
  /\ intervals[2][1] < intervals[1][2]
  /\ intervals[3][1] >= intervals[1][2]
  /\ intervals[3][2] \in {frame.heap[1], frame.heap[2]}

\* sum of the first m elements of nums
RECURSIVE SumTo(_, _)
SumTo(nums, m) == IF m = 0 THEN 0 ELSE SumTo(nums, m - 1) + nums[m]

\* lengths of the non-empty contiguous subarrays of nums (from a, 1-based) of sum k
LengthsWithSum(nums, k) ==
  {len \in 1..Len(nums) :
     \E a \in 1..(Len(nums) - len + 1) :
       SumTo(nums, a + len - 1) - SumTo(nums, a - 1) = k}

LongestWithSum(nums, k) ==
  IF LengthsWithSum(nums, k) = {} THEN 0
  ELSE CHOOSE len \in LengthsWithSum(nums, k) :
         \A other \in LengthsWithSum(nums, k) : other <= len

\* C15: maximum_subarray(nums, k) returns the length of the longest contiguous
\* subarray of nums of sum exactly k, and 0 when there is none; at every point
\* of the loop the table holds exactly the prefix sums seen so far (that of the
\* empty prefix at index -1), each with the earliest index where it occurred.
C15_LongestSubarray ==
  /\ frame.pc = "done" => lastRet = PyInt(LongestWithSum(frame.nums, frame.k))
  /\ LET seen == (-1)..(frame.i - 1)
         prefix(m) == SumTo(frame.nums, m + 1)
     IN /\ DOMAIN frame.prefix_nums = {prefix(m) : m \in seen}
        /\ \A m \in seen :
             /\ frame.prefix_nums[prefix(m)] <= m
             /\ prefix(frame.prefix_nums[prefix(m)]) = prefix(m)

\* C15 witness: a list with a negative element and a repeated prefix sum,
\* whose longest subarray of sum k has length 3, was processed to the end.
C15_Witness ==
  /\ frame.pc = "done"
  /\ lastRet = PyInt(3)
  /\ \E n \in DOMAIN frame.nums : frame.nums[n] < 0
  /\ \E a \in DOMAIN frame.nums : \E b \in DOMAIN frame.nums :
       a < b /\ SumTo(frame.nums, a) = SumTo(frame.nums, b)
  /\ frame.k # 0
====
